---- MODULE Spec2Model ----
(***************************************************************************)
(* WorkSync: weekly hour tracker.  Model of the time codec, the attendance *)
(* text parser (parseKekaText), the week accounting engine, the deficit    *)
(* distributor (distributeDeficit), the suggestion engine                  *)
(* (calculateOutTimeFromMinutes, getSmartSuggestions) and the              *)
(* WeeklyDashboard day store.                                              *)
(*                                                                         *)
(* Representation.                                                         *)
(*  - A JavaScript string is a sequence of one-character strings; the      *)
(*    empty string is << >>.  "10:30" is <<"1","0",":","3","0">>.          *)
(*  - grossHours and the hour constants are counted in 1/10000 hour (the   *)
(*    precision of toFixed(4)), so 9.5 h is 95000.                         *)
(*  - Fractional minute values are exact rationals num/den; IEEE rounding  *)
(*    noise is not modelled.                                               *)
(*  - A line of pasted text is the record of what the parser's regular     *)
(*    expressions extract from it: whether it is a date line (with its     *)
(*    day-of-month and month and whether a tag follows), the matches of    *)
(*    the duration pattern (matchAll), the match of the "late" pattern     *)
(*    (<< >> or one match), and whether "on time" / a leave keyword occur. *)
(*  - A target in minutes is an exact rational [num, den].                 *)
(*  - Toast and error messages are never taken apart by the program and    *)
(*    are kept as plain strings.                                           *)
(***************************************************************************)
EXTENDS Integers, Sequences, FiniteSets, TLC

VARIABLES
    days,       \* WeeklyDashboard state `days' / the collection handed to a pure function
    settings,   \* UserSettings prop
    text,       \* raw text handed to parseKekaText (sequence of lines)
    prev,       \* the collection a pure function was applied to (<< >> in the dashboard)
    op,         \* name of the last operation applied
    nops,       \* number of store operations applied so far
    args,       \* arguments of the pure function applied last that are not in days/settings
    result,     \* value returned by the pure function applied last
    toast,      \* WeeklyDashboard state `toastMessage'
    error,      \* ImportModal state `error'
    paste       \* clipboard reads in flight: the currentDays each handlePaste closure holds

vars == <<days, settings, text, prev, op, nops, args, result, toast, error, paste>>

----------------------------------------------------------------------------
(* Bounds *)

MaxLines == 4       \* longest pasted text, in lines
MaxOps == 3         \* longest sequence of dashboard operations

----------------------------------------------------------------------------
(* Program constants (src/constants.ts), hours in 1/10000 h *)

Scale == 10000
DAILY_TARGET_HOURS == 95000
WEEKLY_TARGET_HOURS == 475000
HALF_DAY_DEDUCTION == 47500
FULL_DAY_DEDUCTION == 95000
SAFETY_BUFFER_MINUTES == 2

WEEK_DAYS ==
    << [id |-> "mon", label |-> "Monday"],
       [id |-> "tue", label |-> "Tuesday"],
       [id |-> "wed", label |-> "Wednesday"],
       [id |-> "thu", label |-> "Thursday"],
       [id |-> "fri", label |-> "Friday"] >>

----------------------------------------------------------------------------
(* Strings *)

EmptyStr == << >>

DigitChars == <<"0", "1", "2", "3", "4", "5", "6", "7", "8", "9">>

DigitVal(c) == (CHOOSE i \in 1..10 : DigitChars[i] = c) - 1

\* Number(s) / parseInt(s, 10) on a string of decimal digits
RECURSIVE ToNumber(_)
ToNumber(s) ==
    IF s = EmptyStr THEN 0
    ELSE ToNumber(SubSeq(s, 1, Len(s) - 1)) * 10 + DigitVal(s[Len(s)])

\* n.toString() for a natural number
RECURSIVE NumToString(_)
NumToString(n) ==
    IF n < 10 THEN <<DigitChars[n + 1]>>
    ELSE NumToString(n \div 10) \o <<DigitChars[(n % 10) + 1]>>

\* s.padStart(width, c)
RECURSIVE PadStart(_, _, _)
PadStart(s, width, c) ==
    IF Len(s) >= width THEN s ELSE PadStart(<<c>> \o s, width, c)

\* s.split(sep) for a one-character separator
RECURSIVE SplitFrom(_, _, _, _)
SplitFrom(s, sep, k, cur) ==
    IF k > Len(s) THEN <<cur>>
    ELSE IF s[k] = sep THEN <<cur>> \o SplitFrom(s, sep, k + 1, EmptyStr)
    ELSE SplitFrom(s, sep, k + 1, Append(cur, s[k]))

Split(s, sep) == SplitFrom(s, sep, 1, EmptyStr)

LowerChar(c) ==
    CASE c = "J" -> "j" [] c = "A" -> "a" [] c = "N" -> "n"
      [] c = "F" -> "f" [] c = "E" -> "e" [] c = "B" -> "b"
      [] OTHER -> c

\* s.toLowerCase()
ToLowerCase(s) == [k \in 1..Len(s) |-> LowerChar(s[k])]

----------------------------------------------------------------------------
(* Time codec (services/timeUtils) *)

Max(a, b) == IF a >= b THEN a ELSE b

\* Math.round(num/den) for den > 0: the nearest integer, ties upwards
MathRound(num, den) == (2 * num + den) \div (2 * den)

\* Math.ceil(num/den) for den > 0
MathCeil(num, den) == -((-num) \div den)

timeToMinutes(timeStr) ==
    IF timeStr = EmptyStr THEN 0
    ELSE LET parts == Split(timeStr, ":")
         IN ToNumber(parts[1]) * 60 + ToNumber(parts[2])

\* variant: hours and minutes are written without padding
minutesToTimeQ_NoPad(num, den) ==
    LET rounded == Max(0, MathRound(num, den))
        mins == IF rounded >= 24 * 60 THEN 23 * 60 + 59 ELSE rounded
    IN NumToString(mins \div 60) \o <<":">> \o NumToString(mins % 60)

\* minutesToTime(totalMinutes) with totalMinutes = num/den
minutesToTimeQ(num, den) ==
    LET rounded == Max(0, MathRound(num, den))
        mins == IF rounded >= 24 * 60 THEN 23 * 60 + 59 ELSE rounded
        hours == mins \div 60
        minutes == mins % 60
    IN PadStart(NumToString(hours), 2, "0") \o <<":">> \o PadStart(NumToString(minutes), 2, "0")

minutesToTime(totalMinutes) == minutesToTimeQ(totalMinutes, 1)

\* Number((minutes / 60).toFixed(4)), in 1/10000 h
ToFixed4Hours(minutes) == MathRound(minutes * Scale, 60)

calculateDuration(start, end) ==
    IF start = EmptyStr \/ end = EmptyStr THEN 0
    ELSE LET diff == timeToMinutes(end) - timeToMinutes(start)
         IN IF diff > 0 THEN ToFixed4Hours(diff) ELSE 0

getDailyExpectation(leaveType) ==
    IF leaveType = "FULL" THEN 0
    ELSE IF leaveType = "HALF" THEN HALF_DAY_DEDUCTION
    ELSE DAILY_TARGET_HOURS

----------------------------------------------------------------------------
(* Week accounting engine (services/timeUtils) *)

RECURSIVE SumSeq(_)
SumSeq(xs) == IF xs = << >> THEN 0 ELSE xs[1] + SumSeq(Tail(xs))

\* variant: a Half day is deducted like a Full day
leaveDeduction_HalfAsFull(day) ==
    IF day.leaveType = "FULL" THEN FULL_DAY_DEDUCTION
    ELSE IF day.leaveType = "HALF" THEN FULL_DAY_DEDUCTION
    ELSE 0

leaveDeduction(day) ==
    IF day.leaveType = "FULL" THEN FULL_DAY_DEDUCTION
    ELSE IF day.leaveType = "HALF" THEN HALF_DAY_DEDUCTION
    ELSE 0

\* variant: an open day is projected at the hours it has
projection_OpenUsesGross(day) ==
    LET dailyExpectation == getDailyExpectation(day.leaveType)
    IN IF day.punchOut # EmptyStr THEN day.grossHours
       ELSE IF day.punchIn # EmptyStr THEN day.grossHours
       ELSE IF day.status = "FUTURE" \/ day.status = "PRESENT" THEN dailyExpectation
       ELSE 0

projection(day) ==
    LET dailyExpectation == getDailyExpectation(day.leaveType)
    IN IF day.punchOut # EmptyStr THEN day.grossHours
       ELSE IF day.punchIn # EmptyStr THEN Max(day.grossHours, dailyExpectation)
       ELSE IF day.status = "FUTURE" \/ day.status = "PRESENT" THEN dailyExpectation
       ELSE 0

calculateWeekStats(ds) ==
    LET totalWorked == SumSeq([i \in 1..Len(ds) |-> ds[i].grossHours])
        totalLeaveDeduction == SumSeq([i \in 1..Len(ds) |-> leaveDeduction(ds[i])])
        projectedTotal == SumSeq([i \in 1..Len(ds) |-> projection(ds[i])])
        requiredTotal == Max(0, WEEKLY_TARGET_HOURS - totalLeaveDeduction)
        remainingWeekly == Max(0, requiredTotal - totalWorked)
        settled(d) == d.status = "PAST" \/ d.punchOut # EmptyStr
        expectedSoFar == SumSeq([i \in 1..Len(ds) |->
                            IF settled(ds[i]) THEN getDailyExpectation(ds[i].leaveType) ELSE 0])
        workedSoFar == SumSeq([i \in 1..Len(ds) |->
                            IF settled(ds[i]) THEN ds[i].grossHours ELSE 0])
    IN [ totalWorked |-> totalWorked,
         requiredTotal |-> requiredTotal,
         originalTarget |-> WEEKLY_TARGET_HOURS,
         totalLeaveDeduction |-> totalLeaveDeduction,
         remainingWeekly |-> remainingWeekly,
         weeklyDeficit |-> Max(0, expectedSoFar - workedSoFar),
         projectedTotal |-> projectedTotal,
         isOnTrack |-> (projectedTotal >= requiredTotal - Scale \div 10) ]

----------------------------------------------------------------------------
(* Deficit distributor (services/timeUtils) *)

\* variant: a Past day is not treated as locked
isLocked_PastOpen(day) ==
    IF day.leaveType = "FULL" THEN TRUE
    ELSE IF day.status = "PRESENT" /\ day.punchOut # EmptyStr THEN TRUE
    ELSE FALSE

isLocked(day) ==
    IF day.leaveType = "FULL" THEN TRUE
    ELSE IF day.status = "PAST" THEN TRUE
    ELSE IF day.status = "PRESENT" /\ day.punchOut # EmptyStr THEN TRUE
    ELSE FALSE

\* settings.enableMaxTime ? timeToMinutes(settings.maxOutTime) : 24 * 60 - 1
maxOutMinutes(s) ==
    IF s.enableMaxTime THEN timeToMinutes(s.maxOutTime) ELSE 24 * 60 - 1

\* variant: the proposed end is used without the cap
cappedEndMins_NoCap(num, den, maxOut) == num

\* Math.min(endMins, maxOutMinutes) with endMins = num/den; the result over den
cappedEndMins(num, den, maxOut) ==
    IF num <= maxOut * den THEN num ELSE maxOut * den

\* variant: the planned hours are added to the hours the day already has
plannedHours_AddsPrevious(day, startStr, endStr) ==
    day.grossHours + calculateDuration(startStr, endStr)

\* grossHours of a planned day
plannedHours(day, startStr, endStr) == calculateDuration(startStr, endStr)

\* variant: the total is split over one day fewer than are adjustable
planDay_SplitOverFewer(day, neededTotal, count, s) ==
    LET startStr == IF day.punchIn # EmptyStr THEN day.punchIn ELSE s.standardInTime
        startMins == timeToMinutes(startStr)
        den == Scale * Max(1, count - 1)
        endNum == startMins * den + neededTotal * 60
        endStr == minutesToTimeQ(cappedEndMins(endNum, den, maxOutMinutes(s)), den)
    IN [day EXCEPT !.punchIn = startStr,
                   !.punchOut = endStr,
                   !.grossHours = plannedHours(day, startStr, endStr)]

\* the record written for one adjustable day; neededTotal in 1/10000 h
planDay(day, neededTotal, count, s) ==
    LET startStr == IF day.punchIn # EmptyStr THEN day.punchIn ELSE s.standardInTime
        startMins == timeToMinutes(startStr)
        den == Scale * count
        \* endMins = startMins + (neededTotal / count) * 60
        endNum == startMins * den + neededTotal * 60
        endStr == minutesToTimeQ(cappedEndMins(endNum, den, maxOutMinutes(s)), den)
    IN [day EXCEPT !.punchIn = startStr,
                   !.punchOut = endStr,
                   !.grossHours = plannedHours(day, startStr, endStr)]

distributeDeficit(ds, s) ==
    LET stats == calculateWeekStats(ds)
        adjustableIndices == {i \in 1..Len(ds) : ~isLocked(ds[i])}
        lockedHours == SumSeq([i \in 1..Len(ds) |->
                            IF isLocked(ds[i]) THEN ds[i].grossHours ELSE 0])
        neededTotal == Max(0, stats.requiredTotal - lockedHours)
    IN IF adjustableIndices = {} THEN ds
       ELSE [i \in 1..Len(ds) |->
                IF i \in adjustableIndices
                THEN planDay(ds[i], neededTotal, Cardinality(adjustableIndices), s)
                ELSE ds[i]]

----------------------------------------------------------------------------
(* Suggestion engine (services/timeUtils); a target is [num, den] minutes *)

\* minutesToDuration(totalMinutes) for a whole number of minutes
minutesToDuration(totalMinutes) ==
    LET isNegative == totalMinutes < 0
        absMins == IF isNegative THEN -totalMinutes ELSE totalMinutes
        h == absMins \div 60
        m == absMins % 60
    IN (IF isNegative THEN <<"-">> ELSE << >>)
         \o NumToString(h) \o <<"h", " ">> \o NumToString(m) \o <<"m">>

\* variant: the target is rounded up without the safety buffer
bufferedTargetMinutes_NoBuffer(target) == MathCeil(target.num, target.den)

\* variant: the safety buffer is added to a zero target only
bufferedTargetMinutes_BufferAtZero(target) ==
    MathCeil(target.num, target.den) + (IF target.num > 0 THEN 0 ELSE SAFETY_BUFFER_MINUTES)

\* Math.ceil(targetMinutes) + (targetMinutes > 0 ? SAFETY_BUFFER_MINUTES : 0)
bufferedTargetMinutes(target) ==
    MathCeil(target.num, target.den) + (IF target.num > 0 THEN SAFETY_BUFFER_MINUTES ELSE 0)

\* settings.enableMaxTime ? timeToMinutes(settings.maxOutTime) : 24 * 60 - 1
maxLimitMins(s) ==
    IF s.enableMaxTime THEN timeToMinutes(s.maxOutTime) ELSE 24 * 60 - 1

\* HALF_DAY_DEDUCTION * 60
halfDayMinutes == (HALF_DAY_DEDUCTION * 60) \div Scale

\* bufferedTargetMinutes - Math.max(0, maxLimitMins - startMins)
deficitMinutes(punchIn, target, s) ==
    bufferedTargetMinutes(target) - Max(0, maxLimitMins(s) - timeToMinutes(punchIn))

\* variant: only whole credits contained in the deficit are counted
halfDaysNeeded_Floor(deficit) == deficit \div halfDayMinutes

\* Math.ceil(deficitMinutes / halfDayMinutes)
halfDaysNeeded(deficit) == MathCeil(deficit, halfDayMinutes)

\* variant: the credited target is not floored at zero
newTargetMinutes_Signed(buffered, creditMinutes) == buffered - creditMinutes

\* Math.max(0, bufferedTargetMinutes - creditMinutes)
newTargetMinutes(buffered, creditMinutes) == Max(0, buffered - creditMinutes)

MsgTargetMet == <<"T", "a", "r", "g", "e", "t", " ", "M", "e", "t">>

\* `Add ${n} Half-Day${n > 1 ? 's' : ''}`
MsgAddHalfDays(n) ==
    <<"A", "d", "d", " ">> \o NumToString(n)
      \o <<" ", "H", "a", "l", "f", "-", "D", "a", "y">>
      \o (IF n > 1 THEN <<"s">> ELSE << >>)

\* `Cap reached. Deficit: ${minutesToDuration(deficitMinutes)}`
MsgCapReached(deficit) ==
    <<"C", "a", "p", " ", "r", "e", "a", "c", "h", "e", "d", ".", " ",
      "D", "e", "f", "i", "c", "i", "t", ":", " ">> \o minutesToDuration(deficit)

calculateOutTimeFromMinutes(punchIn, target, s) ==
    LET startMins == timeToMinutes(punchIn)
        buffered == bufferedTargetMinutes(target)
        suggestedOutMins == startMins + buffered
        deficit == deficitMinutes(punchIn, target, s)
        needed == halfDaysNeeded(deficit)
    IN IF suggestedOutMins <= maxLimitMins(s)
       THEN [time |-> minutesToTime(suggestedOutMins), status |-> "ok", msg |-> MsgTargetMet]
       ELSE IF needed > 0
       THEN [time |-> minutesToTime(startMins + newTargetMinutes(buffered, needed * halfDayMinutes)),
             status |-> "suggestion",
             msg |-> MsgAddHalfDays(needed)]
       ELSE [time |-> minutesToTime(maxLimitMins(s)),
             status |-> "impossible",
             msg |-> MsgCapReached(deficit)]

\* calculateOutTime(punchIn, targetHours, settings) with targetHours = hoursNum/hoursDen
calculateOutTime(punchIn, hoursNum, hoursDen, s) ==
    calculateOutTimeFromMinutes(punchIn, [num |-> hoursNum * 60, den |-> hoursDen], s)

emptyResult == [time |-> EmptyStr, status |-> "none", msg |-> EmptyStr]

\* variant: a day with a punch-out still gets suggestions
noSuggestion_IgnoresPunchOut(day) == day.punchIn = EmptyStr \/ day.leaveType = "FULL"

\* !day.punchIn || day.punchOut || day.leaveType === 'FULL'
noSuggestion(day) ==
    day.punchIn = EmptyStr \/ day.punchOut # EmptyStr \/ day.leaveType = "FULL"

\* variant: the hours of the day itself are counted with the others
otherDaysWorked_IncludesOwn(day, allDays) ==
    SumSeq([i \in 1..Len(allDays) |-> allDays[i].grossHours])

\* allDays.reduce((acc, d) => d.id !== day.id ? acc + d.grossHours : acc, 0)
otherDaysWorked(day, allDays) ==
    SumSeq([i \in 1..Len(allDays) |->
                IF allDays[i].id # day.id THEN allDays[i].grossHours ELSE 0])

\* variant: Past and Present days without punch-out are counted as available
availableDaysCount_AnyStatus(day, allDays) ==
    Cardinality({i \in 1..Len(allDays) :
                    /\ allDays[i].leaveType # "FULL"
                    /\ allDays[i].punchOut = EmptyStr})

\* allDays.filter(d => d.leaveType !== 'FULL' && !d.punchOut &&
\*                     (d.id === day.id || d.status === 'FUTURE')).length
availableDaysCount(day, allDays) ==
    Cardinality({i \in 1..Len(allDays) :
                    /\ allDays[i].leaveType # "FULL"
                    /\ allDays[i].punchOut = EmptyStr
                    /\ (allDays[i].id = day.id \/ allDays[i].status = "FUTURE")})

getSmartSuggestions(day, allDays, s) ==
    IF noSuggestion(day) THEN [standard |-> emptyResult, adjusted |-> emptyResult]
    ELSE LET standardTarget == getDailyExpectation(day.leaveType)
             stats == calculateWeekStats(allDays)
             remainingNeededGlobal ==
                 Max(0, stats.requiredTotal - otherDaysWorked(day, allDays))
         IN [standard |-> calculateOutTime(day.punchIn, standardTarget, Scale, s),
             adjusted |-> calculateOutTime(day.punchIn, remainingNeededGlobal,
                                           Scale * Max(1, availableDaysCount(day, allDays)), s)]

----------------------------------------------------------------------------
(* Attendance text parser (services/kekaParser) *)

NoDay == "none"

\* variant: the leave flag starts set
EmptyDayData_Tagged ==
    [maxMinutes |-> 0, arrivalStatus |-> "UNKNOWN", lateMinutes |-> 0, leaveTagFound |-> TRUE]

\* dayData[day.id] as initialised for every displayed day
EmptyDayData ==
    [maxMinutes |-> 0, arrivalStatus |-> "UNKNOWN", lateMinutes |-> 0, leaveTagFound |-> FALSE]

\* currentDays.find(day => month and day-of-month of day.dateStr match): the
\* id of the first matching day, or NoDay
matchingDay(line, currentDays) ==
    LET extractedDate == ToNumber(line.dom)
        extractedMonth == ToLowerCase(line.mon)
        hits == {i \in 1..Len(currentDays) :
                    LET parts == Split(currentDays[i].dateStr, " ")
                    IN /\ ToLowerCase(parts[1]) = extractedMonth
                       /\ ToNumber(parts[2]) = extractedDate}
    IN IF hits = {} THEN NoDay
       ELSE currentDays[CHOOSE i \in hits : \A j \in hits : i <= j].id

\* variant: the cursor stays on the day of the previous block
cursorOnNoMatch_Keep(cursor) == cursor

\* the cursor after a date line that matches no displayed day
cursorOnNoMatch(cursor) == NoDay

\* variant: the last duration of the line replaces the running value
maxDuration_Last(durs, maxMinutes) ==
    IF durs = << >> THEN maxMinutes
    ELSE durs[Len(durs)].h * 60 + durs[Len(durs)].m

\* the running maximum after the duration tokens of one line
RECURSIVE maxDuration(_, _)
maxDuration(durs, maxMinutes) ==
    IF durs = << >> THEN maxMinutes
    ELSE LET totalMins == durs[1].h * 60 + durs[1].m
         IN maxDuration(Tail(durs), IF totalMins > maxMinutes THEN totalMins ELSE maxMinutes)

\* arrival status and lateness after one line: the "late" match of the line,
\* else the "on time" phrase, else unchanged
scanArrival(data, line) ==
    IF line.late # << >>
    THEN [data EXCEPT !.arrivalStatus = "LATE",
                      !.lateMinutes = line.late[1].h * 60 + line.late[1].m]
    ELSE IF line.onTime THEN [data EXCEPT !.arrivalStatus = "ON_TIME"]
    ELSE data

\* the body of lines.forEach: st = [cursor, dayData]
scanLine(st, line, currentDays) ==
    IF line.kind = "blank" THEN st
    ELSE IF line.kind = "date"
    THEN LET m == matchingDay(line, currentDays)
         IN IF m # NoDay
            THEN [cursor |-> m,
                  dayData |-> IF line.tag
                              THEN [st.dayData EXCEPT ![m].leaveTagFound = TRUE]
                              ELSE st.dayData]
            ELSE [st EXCEPT !.cursor = cursorOnNoMatch(st.cursor)]
    ELSE IF st.cursor = NoDay THEN st
    ELSE LET id == st.cursor
             d1 == [st.dayData[id] EXCEPT !.maxMinutes = maxDuration(line.durs, @)]
             d2 == scanArrival(d1, line)
             d3 == IF line.leaveKw THEN [d2 EXCEPT !.leaveTagFound = TRUE] ELSE d2
         IN [st EXCEPT !.dayData[id] = d3]

RECURSIVE scanLines(_, _, _)
scanLines(st, lines, currentDays) ==
    IF lines = << >> THEN st
    ELSE scanLines(scanLine(st, lines[1], currentDays), Tail(lines), currentDays)

\* start minutes of the day derived from the arrival status (0 when unknown)
startMinsOf(data, s) ==
    IF data.arrivalStatus = "LATE" THEN timeToMinutes(s.standardInTime) + data.lateMinutes
    ELSE IF data.arrivalStatus = "ON_TIME" THEN timeToMinutes(s.standardInTime)
    ELSE 0

\* variant: the imported hours are added to the hours the day already has
hoursDay_AddsHours(day, data, s) ==
    LET startMins == startMinsOf(data, s)
    IN IF startMins > 0
       THEN IF day.isToday
            THEN [day EXCEPT !.punchIn = minutesToTime(startMins),
                             !.punchOut = EmptyStr,
                             !.grossHours = day.grossHours + ToFixed4Hours(data.maxMinutes),
                             !.leaveType = "NONE"]
            ELSE [day EXCEPT !.punchIn = minutesToTime(startMins),
                             !.punchOut = minutesToTime(startMins + data.maxMinutes),
                             !.grossHours = day.grossHours + ToFixed4Hours(data.maxMinutes),
                             !.leaveType = "NONE"]
       ELSE [day EXCEPT !.grossHours = day.grossHours + ToFixed4Hours(data.maxMinutes),
                        !.leaveType = "NONE"]

\* the day returned when explicit hours were found (data.maxMinutes > 0)
hoursDay(day, data, s) ==
    LET startMins == startMinsOf(data, s)
    IN IF startMins > 0
       THEN IF day.isToday
            THEN [day EXCEPT !.punchIn = minutesToTime(startMins),
                             !.punchOut = EmptyStr,
                             !.grossHours = ToFixed4Hours(data.maxMinutes),
                             !.leaveType = "NONE"]
            ELSE [day EXCEPT !.punchIn = minutesToTime(startMins),
                             !.punchOut = minutesToTime(startMins + data.maxMinutes),
                             !.grossHours = ToFixed4Hours(data.maxMinutes),
                             !.leaveType = "NONE"]
       ELSE [day EXCEPT !.grossHours = ToFixed4Hours(data.maxMinutes),
                        !.leaveType = "NONE"]

\* variant: the leave is recorded without clearing the punches
leaveDay_KeepsPunches(day) == [day EXCEPT !.leaveType = "FULL"]

\* the day returned when no hours were found but a leave tag was
leaveDay(day) ==
    [day EXCEPT !.punchIn = EmptyStr,
                !.punchOut = EmptyStr,
                !.grossHours = 0,
                !.leaveType = "FULL"]

\* the body of newDays.map
resolveDay(day, data, s) ==
    IF data.maxMinutes > 0 THEN hoursDay(day, data, s)
    ELSE IF data.leaveTagFound THEN leaveDay(day)
    ELSE day

\* the accumulators after the scan of the whole text
scanText(rawText, currentDays) ==
    LET ids == {currentDays[i].id : i \in 1..Len(currentDays)}
    IN scanLines([cursor |-> NoDay, dayData |-> [id \in ids |-> EmptyDayData]],
                 rawText, currentDays)

parseKekaText(rawText, currentDays, s) ==
    LET st == scanText(rawText, currentDays)
    IN [i \in 1..Len(currentDays) |-> resolveDay(currentDays[i], st.dayData[currentDays[i].id], s)]

----------------------------------------------------------------------------
(* WeeklyDashboard: the day store and its handlers (components/WeeklyDashboard,
   components/DayRow, components/ImportModal) *)

T0000 == <<"0", "0", ":", "0", "0">>
T0900 == <<"0", "9", ":", "0", "0">>
T1000 == <<"1", "0", ":", "0", "0">>
T1030 == <<"1", "0", ":", "3", "0">>
T1800 == <<"1", "8", ":", "0", "0">>
T1830 == <<"1", "8", ":", "3", "0">>
T2031 == <<"2", "0", ":", "3", "1">>
T2100 == <<"2", "1", ":", "0", "0">>
T2200 == <<"2", "2", ":", "0", "0">>
T2222 == <<"2", "2", ":", "2", "2">>
T2359 == <<"2", "3", ":", "5", "9">>

\* format(date, 'MMM dd') for Monday..Friday of the displayed week (02..06 Feb)
WeekDates ==
    << <<"F", "e", "b", " ", "0", "2">>,
       <<"F", "e", "b", " ", "0", "3">>,
       <<"F", "e", "b", " ", "0", "4">>,
       <<"F", "e", "b", " ", "0", "5">>,
       <<"F", "e", "b", " ", "0", "6">> >>

\* useState initialiser of `days' when nothing is saved; today is the index of
\* the current weekday, 6 on a weekend
initialWeek(today) ==
    [i \in 1..Len(WEEK_DAYS) |->
        [ id |-> WEEK_DAYS[i].id,
          label |-> WEEK_DAYS[i].label,
          dateStr |-> WeekDates[i],
          isToday |-> (i = today),
          punchIn |-> EmptyStr,
          punchOut |-> EmptyStr,
          grossHours |-> 0,
          deficit |-> 0,
          note |-> EmptyStr,
          status |-> IF i = today THEN "PRESENT" ELSE IF i < today THEN "PAST" ELSE "FUTURE",
          leaveType |-> "NONE" ]]

\* variant: choosing Full leave keeps the punches
updateDay_NoClear(day, field, value) ==
    LET updatedDay == [day EXCEPT ![field] = value]
    IN IF field \in {"punchIn", "punchOut", "leaveType"}
       THEN [updatedDay EXCEPT !.grossHours = calculateDuration(updatedDay.punchIn, updatedDay.punchOut)]
       ELSE updatedDay

\* the day written by handleUpdateDay for the matching id
updateDay(day, field, value) ==
    LET updatedDay == [day EXCEPT ![field] = value]
        cleared == IF field = "leaveType" /\ value = "FULL"
                   THEN [updatedDay EXCEPT !.punchIn = EmptyStr,
                                           !.punchOut = EmptyStr,
                                           !.grossHours = 0]
                   ELSE updatedDay
    IN IF field \in {"punchIn", "punchOut", "leaveType"}
       THEN [cleared EXCEPT !.grossHours = calculateDuration(cleared.punchIn, cleared.punchOut)]
       ELSE cleared

handleUpdateDay(ds, id, field, value) ==
    [i \in 1..Len(ds) |-> IF ds[i].id = id THEN updateDay(ds[i], field, value) ELSE ds[i]]

handleResetDay(ds, id) ==
    [i \in 1..Len(ds) |->
        IF ds[i].id = id
        THEN [ds[i] EXCEPT !.punchIn = EmptyStr, !.punchOut = EmptyStr, !.grossHours = 0]
        ELSE ds[i]]

\* DayRow: the punch inputs and the reset button are disabled on a Full-leave day
isDisabled(day) == day.leaveType = "FULL"
hasData(day) == day.punchIn # EmptyStr \/ day.punchOut # EmptyStr
\* DayRow: the STD and ADJ pills are rendered
showSuggestions(day, suggestions) ==
    /\ ~isDisabled(day)
    /\ day.punchOut = EmptyStr
    /\ day.punchIn # EmptyStr
    /\ suggestions.standard.status # "none"

\* ImportModal.processText: does the parse differ from currentDays
hasChanges(updated, currentDays) ==
    \E idx \in 1..Len(updated) :
        \/ updated[idx].punchIn # currentDays[idx].punchIn
        \/ updated[idx].punchOut # currentDays[idx].punchOut
        \/ updated[idx].grossHours # currentDays[idx].grossHours
        \/ updated[idx].leaveType # currentDays[idx].leaveType

\* input.trim() is empty
isBlankText(input) == \A k \in 1..Len(input) : input[k].kind = "blank"

MsgTextEmpty == "Text is empty."
MsgNoNewData ==
    "No new data recognized. Ensure you copied the row text containing \"Mon/Tue\", \"Gross Hours\" (e.g. 7h 30m), or \"Late\" status."
MsgPermissionDenied == "Permission denied. Please paste manually below."
MsgImportComplete == "Import complete!"
MsgDataImported == "Data imported successfully!"

\* the error processText(input) sets, "" when it calls onImport
processError(input, currentDays, s) ==
    IF isBlankText(input) THEN MsgTextEmpty
    ELSE IF ~hasChanges(parseKekaText(input, currentDays, s), currentDays) THEN MsgNoNewData
    ELSE ""

\* the collection the store holds after processText(input)
processText(input, currentDays, s) ==
    IF isBlankText(input) THEN currentDays
    ELSE LET updated == parseKekaText(input, currentDays, s)
         IN IF hasChanges(updated, currentDays) THEN updated ELSE currentDays

----------------------------------------------------------------------------
(* Inputs *)

Dur(h, m) == [h |-> h, m |-> m]

Line(kind, dom, mon, tag, durs, late, onTime, leaveKw) ==
    [kind |-> kind, dom |-> dom, mon |-> mon, tag |-> tag,
     durs |-> durs, late |-> late, onTime |-> onTime, leaveKw |-> leaveKw]

DataLine(durs, late, onTime, leaveKw) ==
    Line("data", EmptyStr, EmptyStr, FALSE, durs, late, onTime, leaveKw)

BlankLine == Line("blank", EmptyStr, EmptyStr, FALSE, << >>, << >>, FALSE, FALSE)
\* "Mon, 02 Feb"
MonLine == Line("date", <<"0", "2">>, <<"F", "e", "b">>, FALSE, << >>, << >>, FALSE, FALSE)
\* "Mon, 2 FEBLeave"
MonLeaveLine == Line("date", <<"2">>, <<"F", "E", "B">>, TRUE, << >>, << >>, FALSE, FALSE)
\* "Tue, 03 feb 9h 0m on time"
TueLine == Line("date", <<"0", "3">>, <<"f", "e", "b">>, FALSE, <<Dur(9, 0)>>, << >>, TRUE, FALSE)
\* "Tue, 3 FebHoliday" ... "Fri, 6 FebHoliday"
TueLeaveLine == Line("date", <<"3">>, <<"F", "e", "b">>, TRUE, << >>, << >>, FALSE, FALSE)
WedLeaveLine == Line("date", <<"4">>, <<"F", "e", "b">>, TRUE, << >>, << >>, FALSE, FALSE)
ThuLeaveLine == Line("date", <<"5">>, <<"F", "e", "b">>, TRUE, << >>, << >>, FALSE, FALSE)
FriLeaveLine == Line("date", <<"6">>, <<"F", "e", "b">>, TRUE, << >>, << >>, FALSE, FALSE)
\* "Fri, 30 Jan": the Friday before the displayed week
OutLine == Line("date", <<"3", "0">>, <<"J", "a", "n">>, FALSE, << >>, << >>, FALSE, FALSE)
\* "7h 28m"
HoursLine == DataLine(<<Dur(7, 28)>>, << >>, FALSE, FALSE)
\* "5h 37m + 13h 0m"
TwoHoursLine == DataLine(<<Dur(5, 37), Dur(13, 0)>>, << >>, FALSE, FALSE)
\* "0:50:45 late"
LateLine == DataLine(<< >>, <<Dur(0, 50)>>, FALSE, FALSE)
\* "On Time"
OnTimeLine == DataLine(<< >>, << >>, TRUE, FALSE)
\* "Paid Leave 0h 0m"
LeaveLine == DataLine(<<Dur(0, 0)>>, << >>, FALSE, TRUE)

\* the lines a pasted text is made of
Lines ==
    { MonLeaveLine, TueLine, OutLine,
      HoursLine, TwoHoursLine, LateLine, OnTimeLine, LeaveLine }

Texts == UNION { [1..n -> Lines] : n \in 0..MaxLines }

\* texts pasted into the import dialog of the dashboard
ImportTexts ==
    { <<MonLine, HoursLine, LateLine>>,
      <<MonLeaveLine, TueLine, HoursLine>>,
      <<MonLine, LeaveLine, TueLine, TwoHoursLine, OnTimeLine>>,
      <<OutLine, HoursLine, OnTimeLine>>,
      <<MonLine, TwoHoursLine, TueLeaveLine, WedLeaveLine, ThuLeaveLine, FriLeaveLine>>,
      <<BlankLine>> }

DefaultSettings ==
    [standardInTime |-> T1030, maxOutTime |-> T2031, enableMaxTime |-> TRUE, lateBufferMinutes |-> 30]

\* values of an <input type="time">
TimeInputs == {EmptyStr, T0900, T1830, T2100}

LeaveTypes == {"NONE", "HALF", "FULL"}

\* day contents the dashboard can hold, applied to a day of the initial week
Shaped(day, shape) ==
    CASE shape = "empty" -> day
      [] shape = "full" -> [day EXCEPT !.leaveType = "FULL"]
      [] shape = "halfOpen" -> [day EXCEPT !.leaveType = "HALF", !.punchIn = T1000]
      [] shape = "worked" -> [day EXCEPT !.punchIn = T0900, !.punchOut = T1830,
                                         !.grossHours = calculateDuration(T0900, T1830)]
      [] shape = "lateOpen" -> [day EXCEPT !.punchIn = T2100]
      [] shape = "grossOnly" -> [day EXCEPT !.grossHours = ToFixed4Hours(7 * 60 + 28)]
      [] shape = "outOnly" -> [day EXCEPT !.punchOut = T1830]
      [] shape = "importedOpen" -> [day EXCEPT !.punchIn = T1030,
                                               !.grossHours = ToFixed4Hours(13 * 60)]

DayShapes == {"empty", "full", "halfOpen", "worked", "lateOpen", "grossOnly"}

ShapedWeek(today, shapes) ==
    [i \in 1..Len(WEEK_DAYS) |-> Shaped(initialWeek(today)[i], shapes[i])]

----------------------------------------------------------------------------
(* Specification of the dashboard *)

Init ==
    /\ \E today \in {1, 3, 6} : days = initialWeek(today)
    /\ settings = DefaultSettings
    /\ text = << >>
    /\ prev = << >>
    /\ op = "init"
    /\ nops = 0
    /\ args = << >>
    /\ result = << >>
    /\ toast = ""
    /\ error = ""
    /\ paste = << >>

Step(name) ==
    /\ nops < MaxOps
    /\ nops' = nops + 1
    /\ op' = name
    /\ UNCHANGED <<settings, prev, args, result>>

\* DayRow leave selector
EditLeave ==
    \E i \in 1..Len(days), value \in LeaveTypes :
        /\ Step("update")
        /\ days' = handleUpdateDay(days, days[i].id, "leaveType", value)
        /\ UNCHANGED <<text, toast, error, paste>>

\* DayRow punch inputs
EditPunch ==
    \E i \in 1..Len(days), field \in {"punchIn", "punchOut"}, value \in TimeInputs :
        /\ ~isDisabled(days[i])
        /\ Step("update")
        /\ days' = handleUpdateDay(days, days[i].id, field, value)
        /\ UNCHANGED <<text, toast, error, paste>>

\* DayRow reset button
ResetDay ==
    \E i \in 1..Len(days) :
        /\ hasData(days[i]) /\ ~isDisabled(days[i])
        /\ Step("reset")
        /\ days' = handleResetDay(days, days[i].id)
        /\ UNCHANGED <<text, toast, error, paste>>

\* handleAutoPlan
AutoPlan ==
    /\ Step("plan")
    /\ days' = distributeDeficit(days, settings)
    /\ UNCHANGED <<text, toast, error, paste>>

\* ImportModal.processText(input) of a modal that holds currentDays, with
\* handleImport (setDays, toast) and onClose when the parse brought changes
ProcessText(input, currentDays) ==
    /\ text' = input
    /\ days' = IF processError(input, currentDays, settings) = ""
               THEN processText(input, currentDays, settings)
               ELSE days
    /\ toast' = IF processError(input, currentDays, settings) = ""
                THEN MsgImportComplete
                ELSE toast
    /\ error' = processError(input, currentDays, settings)

\* the Import button of the modal on a typed or pasted text
Import ==
    \E input \in ImportTexts :
        /\ Step("import")
        /\ ProcessText(input, days)
        /\ UNCHANGED paste

\* the keka_import effect that runs when the dashboard mounts
AutoImport ==
    \E input \in ImportTexts :
        /\ nops = 0
        /\ Step("autoimport")
        /\ text' = input
        /\ days' = parseKekaText(input, days, settings)
        /\ toast' = MsgDataImported
        /\ UNCHANGED <<error, paste>>

Next == EditLeave \/ EditPunch \/ ResetDay \/ AutoPlan \/ Import \/ AutoImport

Spec == Init /\ [][Next]_vars

----------------------------------------------------------------------------
(* Specification of the dashboard with the clipboard path of the import
   dialog and the toast timer *)

\* handlePaste up to its await: the closure holds the currentDays of the
\* render in which the button was clicked
ClickPaste ==
    /\ paste = << >>
    /\ Step("click")
    /\ paste' = <<days>>
    /\ UNCHANGED <<days, text, toast, error>>

\* navigator.clipboard.readText() resolves: processText(clipboardText) of the
\* closure that was waiting
ClipboardArrives ==
    \E input \in ImportTexts :
        /\ paste # << >>
        /\ Step("paste")
        /\ ProcessText(input, paste[1])
        /\ paste' = << >>

\* navigator.clipboard.readText() rejects
ClipboardDenied ==
    /\ paste # << >>
    /\ Step("denied")
    /\ error' = MsgPermissionDenied
    /\ paste' = << >>
    /\ UNCHANGED <<days, text, toast>>

\* setTimeout(() => setToastMessage(''), 3000)
ToastTimeout ==
    /\ toast # ""
    /\ Step("timeout")
    /\ toast' = ""
    /\ UNCHANGED <<days, text, error, paste>>

NextImport ==
    \/ EditLeave \/ EditPunch \/ ResetDay \/ AutoPlan \/ Import \/ AutoImport
    \/ ClickPaste \/ ClipboardArrives \/ ClipboardDenied \/ ToastTimeout

SpecImport == Init /\ [][NextImport]_vars

----------------------------------------------------------------------------
(* Specification of parseKekaText as a function of its arguments *)

ParseSettings ==
    { DefaultSettings, [DefaultSettings EXCEPT !.standardInTime = T0000] }

\* the initial week on its Monday, and a Tuesday on which the week holds data
ParseWeeks ==
    { initialWeek(1),
      ShapedWeek(2, <<"full", "worked", "grossOnly", "empty", "halfOpen">>) }

InitParse ==
    /\ days \in ParseWeeks
    /\ settings \in ParseSettings
    /\ text \in Texts
    /\ prev = << >>
    /\ op = "init"
    /\ nops = 0
    /\ args = << >>
    /\ result = << >>
    /\ toast = ""
    /\ error = ""
    /\ paste = << >>

Parse ==
    /\ op = "init"
    /\ days' = parseKekaText(text, days, settings)
    /\ prev' = days
    /\ op' = "parse"
    /\ UNCHANGED <<settings, text, nops, args, result, toast, error, paste>>

NextParse == Parse

SpecParse == InitParse /\ [][NextParse]_vars

----------------------------------------------------------------------------
(* Specification of distributeDeficit as a function of its arguments *)

DistSettings ==
    { DefaultSettings,
      [DefaultSettings EXCEPT !.enableMaxTime = FALSE],
      [DefaultSettings EXCEPT !.standardInTime = T2200],
      [DefaultSettings EXCEPT !.maxOutTime = T1830],
      [DefaultSettings EXCEPT !.maxOutTime = T2222] }

InitDist ==
    /\ \E today \in 1..6, shapes \in [1..Len(WEEK_DAYS) -> DayShapes] :
            days = ShapedWeek(today, shapes)
    /\ settings \in DistSettings
    /\ text = << >>
    /\ prev = << >>
    /\ op = "init"
    /\ nops = 0
    /\ args = << >>
    /\ result = << >>
    /\ toast = ""
    /\ error = ""
    /\ paste = << >>

Distribute ==
    /\ op = "init"
    /\ days' = distributeDeficit(days, settings)
    /\ prev' = days
    /\ op' = "plan"
    /\ UNCHANGED <<settings, text, nops, args, result, toast, error, paste>>

NextDist == Distribute

SpecDist == InitDist /\ [][NextDist]_vars

----------------------------------------------------------------------------
(* Specification of calculateOutTimeFromMinutes as a function of its arguments *)

SuggestPunchIns == {T0000, T0900, T1030, T1800, T2031, T2100, T2359}

Target(num, den) == [num |-> num, den |-> den]

\* targets in minutes: whole ones, and thirds as an adjusted target yields
SuggestTargets ==
    { Target(n, 1) : n \in {0, 1, 149, 150, 283, 285, 434, 436, 570, 600, 860} }
      \cup { Target(n, 3) : n \in {1, 448, 1709} }

SuggestSettings ==
    { DefaultSettings,
      [DefaultSettings EXCEPT !.enableMaxTime = FALSE],
      [DefaultSettings EXCEPT !.maxOutTime = T1830] }

InitSuggest ==
    /\ days = initialWeek(1)
    /\ settings \in SuggestSettings
    /\ text = << >>
    /\ prev = << >>
    /\ op = "init"
    /\ nops = 0
    /\ args \in [punchIn : SuggestPunchIns, target : SuggestTargets]
    /\ result = << >>
    /\ toast = ""
    /\ error = ""
    /\ paste = << >>

Suggest ==
    /\ op = "init"
    /\ result' = calculateOutTimeFromMinutes(args.punchIn, args.target, settings)
    /\ op' = "suggest"
    /\ UNCHANGED <<days, settings, text, prev, nops, args, toast, error, paste>>

NextSuggest == Suggest

SpecSuggest == InitSuggest /\ [][NextSuggest]_vars

----------------------------------------------------------------------------
(* Specification of getSmartSuggestions as a function of its arguments *)

\* the shapes of a day row, with those of a punch-out typed before the
\* punch-in and of a day imported while still open
SmartShapes == DayShapes \cup {"outOnly", "importedOpen"}

SmartSettings ==
    { DefaultSettings, [DefaultSettings EXCEPT !.maxOutTime = T1830] }

InitSmart ==
    /\ \E today \in {1, 3}, shapes \in [1..Len(WEEK_DAYS) -> SmartShapes] :
            days = ShapedWeek(today, shapes)
    /\ settings \in SmartSettings
    /\ text = << >>
    /\ prev = << >>
    /\ op = "init"
    /\ nops = 0
    /\ args = << >>
    /\ result = << >>
    /\ toast = ""
    /\ error = ""
    /\ paste = << >>

\* the suggestions memo of the dashboard, for the row of day i
SmartSuggest ==
    \E i \in 1..Len(days) :
        /\ op = "init"
        /\ args' = [day |-> i]
        /\ result' = getSmartSuggestions(days[i], days, settings)
        /\ op' = "smart"
        /\ UNCHANGED <<days, settings, text, prev, nops, toast, error, paste>>

\* a click on the STD or ADJ pill of that row:
\* onUpdate(day.id, 'punchOut', suggestions.standard.time / .adjusted.time)
ApplySuggestion ==
    \E pill \in {"standard", "adjusted"} :
        /\ op = "smart"
        /\ showSuggestions(days[args.day], result)
        /\ days' = handleUpdateDay(days, days[args.day].id, "punchOut", result[pill].time)
        /\ prev' = days
        /\ args' = [day |-> args.day, pill |-> pill]
        /\ op' = "apply"
        /\ UNCHANGED <<settings, text, nops, result, toast, error, paste>>

NextSmart == SmartSuggest \/ ApplySuggestion

SpecSmart == InitSmart /\ [][NextSmart]_vars

----------------------------------------------------------------------------
(* Specification of calculateWeekStats as a function of its argument *)

\* the shapes of a day row, with that of a day imported while still open
StatsShapes == DayShapes \cup {"importedOpen"}

InitStats ==
    /\ \E today \in {1, 3, 6}, shapes \in [1..Len(WEEK_DAYS) -> StatsShapes] :
            days = ShapedWeek(today, shapes)
    /\ settings = DefaultSettings
    /\ text = << >>
    /\ prev = << >>
    /\ op = "init"
    /\ nops = 0
    /\ args = << >>
    /\ result = << >>
    /\ toast = ""
    /\ error = ""
    /\ paste = << >>

Stats ==
    /\ op = "init"
    /\ result' = calculateWeekStats(days)
    /\ op' = "stats"
    /\ UNCHANGED <<days, settings, text, prev, nops, args, toast, error, paste>>

NextStats == Stats

SpecStats == InitStats /\ [][NextStats]_vars

----------------------------------------------------------------------------
(* Specification of the time codec: minutesToTime(timeToMinutes(s)) *)

\* the zero-padded clock string of hour h and minute m
ClockString(h, m) ==
    <<DigitChars[(h \div 10) + 1], DigitChars[(h % 10) + 1], ":",
      DigitChars[(m \div 10) + 1], DigitChars[(m % 10) + 1]>>

\* every clock string from "00:00" to "23:59", and some of 24:00 or later
ClockInputs ==
    { ClockString(h, m) : h \in 0..23, m \in 0..59 }
      \cup { ClockString(h, m) : h \in {24, 25, 47, 99}, m \in {0, 1, 30, 59} }

InitCodec ==
    /\ days = initialWeek(1)
    /\ settings = DefaultSettings
    /\ text = << >>
    /\ prev = << >>
    /\ op = "init"
    /\ nops = 0
    /\ args \in [clock : ClockInputs]
    /\ result = << >>
    /\ toast = ""
    /\ error = ""
    /\ paste = << >>

RoundTrip ==
    /\ op = "init"
    /\ result' = minutesToTime(timeToMinutes(args.clock))
    /\ op' = "roundtrip"
    /\ UNCHANGED <<days, settings, text, prev, nops, args, toast, error, paste>>

NextCodec == RoundTrip

SpecCodec == InitCodec /\ [][NextCodec]_vars

----------------------------------------------------------------------------
(* Properties *)

\* minutes since midnight of a clock string "HH:MM"
ClockMinutes(t) ==
    (DigitVal(t[1]) * 10 + DigitVal(t[2])) * 60 + DigitVal(t[4]) * 10 + DigitVal(t[5])

\* the cap of the distributor and of the suggestions, in minutes
EffectiveCap(s) == IF s.enableMaxTime THEN ClockMinutes(s.maxOutTime) ELSE 23 * 60 + 59

\* a locked day: Full leave, or Past, or Present with a punch-out
LockedDay(d) ==
    \/ d.leaveType = "FULL"
    \/ d.status = "PAST"
    \/ (d.status = "PRESENT" /\ d.punchOut # EmptyStr)

\* the start the distributor uses for a day
PlanStart(d, s) == IF d.punchIn # EmptyStr THEN d.punchIn ELSE s.standardInTime

\* C1: every unlocked day leaves distributeDeficit with a punch-out that is
\* not later than the effective cap (maxOutTime when enabled, else 23:59),
\* also when the day's start is itself later than the cap.
C1_PunchOutWithinCap ==
    op = "plan" =>
        \A i \in 1..Len(days) :
            ~LockedDay(prev[i]) =>
                /\ days[i].punchOut # EmptyStr
                /\ ClockMinutes(days[i].punchOut) <= EffectiveCap(settings)

\* an unlocked day whose start is later than the cap has been planned
C1_Witness ==
    /\ op = "plan"
    /\ \E i \in 1..Len(days) :
            /\ ~LockedDay(prev[i])
            /\ ClockMinutes(PlanStart(prev[i], settings)) > EffectiveCap(settings)
            /\ days[i] # prev[i]

\* C2: distributeDeficit returns every locked day identical to the input day,
\* and the whole collection when every day is locked.
C2_LockedDaysUntouched ==
    op = "plan" =>
        /\ \A i \in 1..Len(days) : LockedDay(prev[i]) => days[i] = prev[i]
        /\ (\A i \in 1..Len(days) : LockedDay(prev[i])) => days = prev

\* a plan that rewrote some day of a collection holding a locked day with hours
C2_Witness ==
    /\ op = "plan"
    /\ \E i, j \in 1..Len(days) :
            /\ LockedDay(prev[i]) /\ prev[i].grossHours > 0
            /\ ~LockedDay(prev[j]) /\ days[j] # prev[j]

----------------------------------------------------------------------------
(* Properties of parseKekaText; `text' is parsed against `prev' into `days' *)

\* the date line names the date of the displayed day d
LabelMatches(line, d) ==
    /\ ToLowerCase(line.mon) = ToLowerCase(SubSeq(d.dateStr, 1, 3))
    /\ ToNumber(line.dom) = ToNumber(SubSeq(d.dateStr, 5, Len(d.dateStr)))

SetMax(S) == CHOOSE x \in S : \A y \in S : y <= x

\* index of the date line that heads the block of line k, 0 before the first date line
Heading(t, k) ==
    LET before == {j \in 1..(k - 1) : t[j].kind = "date"}
    IN IF before = {} THEN 0 ELSE SetMax(before)

\* a line before the first date line or in the block of a date outside the week
IgnoredLine(t, k, ds) ==
    /\ t[k].kind # "date"
    /\ \/ Heading(t, k) = 0
       \/ \A i \in 1..Len(ds) : ~LabelMatches(t[Heading(t, k)], ds[i])

RECURSIVE WithoutIgnoredFrom(_, _, _)
WithoutIgnoredFrom(t, k, ds) ==
    IF k > Len(t) THEN << >>
    ELSE IF IgnoredLine(t, k, ds) THEN WithoutIgnoredFrom(t, k + 1, ds)
    ELSE <<t[k]>> \o WithoutIgnoredFrom(t, k + 1, ds)

\* the text with its ignored lines deleted
WithoutIgnored(t, ds) == WithoutIgnoredFrom(t, 1, ds)

\* line k is a non-date line of a block of displayed day i
BelongsTo(t, k, i, ds) ==
    /\ t[k].kind = "data"
    /\ Heading(t, k) # 0
    /\ LabelMatches(t[Heading(t, k)], ds[i])

BlockLines(t, i, ds) == {k \in 1..Len(t) : BelongsTo(t, k, i, ds)}

\* the positive durations (minutes) attributed to displayed day i
PositiveDurations(t, i, ds) ==
    { m \in UNION { { t[k].durs[n].h * 60 + t[k].durs[n].m : n \in 1..Len(t[k].durs) } :
                    k \in BlockLines(t, i, ds) } : m > 0 }

\* a leave/holiday tag was recorded for displayed day i
TagRecorded(t, i, ds) ==
    \E k \in 1..Len(t) :
        \/ (t[k].kind = "date" /\ LabelMatches(t[k], ds[i]) /\ t[k].tag)
        \/ (BelongsTo(t, k, i, ds) /\ t[k].leaveKw)

\* the lines of day i that bear an arrival status
StatusLines(t, i, ds) ==
    {k \in BlockLines(t, i, ds) : t[k].late # << >> \/ t[k].onTime}

\* the arrival status of day i: that of its last status-bearing line
FinalStatus(t, i, ds) ==
    IF StatusLines(t, i, ds) = {} THEN "Unknown"
    ELSE IF t[SetMax(StatusLines(t, i, ds))].late # << >> THEN "Late"
    ELSE "OnTime"

\* the lateness (minutes) of the last "late" token of day i
LastLateness(t, i, ds) ==
    LET lateLines == {k \in BlockLines(t, i, ds) : t[k].late # << >>}
        token == t[SetMax(lateLines)].late[1]
    IN token.h * 60 + token.m

\* C3: lines before the first date line, and lines between a date line that
\* matches no displayed day and the next date line, have no effect: deleting
\* them from the text yields the same collection.
C3_IgnoredLinesHaveNoEffect ==
    op = "parse" => parseKekaText(WithoutIgnored(text, prev), prev, settings) = days

\* a block of a displayed day, then a date outside the week whose block
\* carries hours, in a text that changed the collection
C3_Witness ==
    /\ op = "parse"
    /\ days # prev
    /\ \E a, b, c \in 1..Len(text) :
            /\ a < b /\ b < c
            /\ text[a].kind = "date"
            /\ \E i \in 1..Len(prev) : LabelMatches(text[a], prev[i])
            /\ Heading(text, c) = b
            /\ IgnoredLine(text, c, prev)
            /\ \E n \in 1..Len(text[c].durs) : text[c].durs[n].h * 60 + text[c].durs[n].m > 0

\* C4: parsing the same text against the parser's own output changes nothing.
C4_ParserIdempotent ==
    op = "parse" => parseKekaText(text, days, settings) = days

\* a parse that wrote a punch-in and hours over a day that had other data
C4_Witness ==
    /\ op = "parse"
    /\ \E i \in 1..Len(days) :
            /\ prev[i].grossHours > 0
            /\ days[i].punchIn # EmptyStr
            /\ days[i].punchIn # prev[i].punchIn
            /\ days[i].grossHours # prev[i].grossHours

\* C5: a day with a positive duration attributed gets grossHours = the maximum
\* duration over the non-date lines of all its blocks, and leaveType None,
\* whatever tag was recorded and whatever its leaveType was.
C5_MaxDurationWins ==
    op = "parse" =>
        \A i \in 1..Len(days) :
            PositiveDurations(text, i, prev) # {} =>
                /\ days[i].grossHours = ToFixed4Hours(SetMax(PositiveDurations(text, i, prev)))
                /\ days[i].leaveType = "NONE"

\* a Full-leave day with a recorded tag and different durations on two lines
C5_Witness ==
    /\ op = "parse"
    /\ \E i \in 1..Len(days) :
            /\ prev[i].leaveType = "FULL"
            /\ TagRecorded(text, i, prev)
            /\ Cardinality(PositiveDurations(text, i, prev)) >= 2
            /\ Cardinality({k \in BlockLines(text, i, prev) : text[k].durs # << >>}) >= 2
            /\ days[i].leaveType = "NONE"

\* C6 (as claimed): a day with hours found gets punchIn = standardInTime plus
\* the lateness of the last "late" token when its final arrival status is
\* Late, and punchIn = standardInTime when it is OnTime.
C6_PunchInFromArrival ==
    op = "parse" =>
        \A i \in 1..Len(days) :
            PositiveDurations(text, i, prev) # {} =>
                /\ FinalStatus(text, i, prev) = "Late" =>
                        /\ days[i].punchIn # EmptyStr
                        /\ ClockMinutes(days[i].punchIn) =
                              ClockMinutes(settings.standardInTime) + LastLateness(text, i, prev)
                /\ FinalStatus(text, i, prev) = "OnTime" =>
                        days[i].punchIn = settings.standardInTime

\* C7 (as claimed): with hours found and a punch-in computed, punchOut is
\* punchIn plus the duration on a day that is not today, and empty on today,
\* where punchIn and grossHours are still set.
C7_PunchOutFromDuration ==
    op = "parse" =>
        \A i \in 1..Len(days) :
            (/\ PositiveDurations(text, i, prev) # {}
             /\ FinalStatus(text, i, prev) # "Unknown") =>
                /\ days[i].punchIn # EmptyStr
                /\ days[i].grossHours = ToFixed4Hours(SetMax(PositiveDurations(text, i, prev)))
                /\ IF prev[i].isToday
                   THEN days[i].punchOut = EmptyStr
                   ELSE /\ days[i].punchOut # EmptyStr
                        /\ ClockMinutes(days[i].punchOut) =
                              ClockMinutes(days[i].punchIn) + SetMax(PositiveDurations(text, i, prev))

\* C8: a day with no positive duration but a recorded leave/holiday tag is
\* returned with leaveType Full, empty punches and grossHours 0.
C8_LeaveTagMakesFullLeave ==
    op = "parse" =>
        \A i \in 1..Len(days) :
            (PositiveDurations(text, i, prev) = {} /\ TagRecorded(text, i, prev)) =>
                /\ days[i].leaveType = "FULL"
                /\ days[i].punchIn = EmptyStr
                /\ days[i].punchOut = EmptyStr
                /\ days[i].grossHours = 0

\* a worked day turned into Full leave by a tag
C8_Witness ==
    /\ op = "parse"
    /\ \E i \in 1..Len(days) :
            /\ PositiveDurations(text, i, prev) = {}
            /\ TagRecorded(text, i, prev)
            /\ prev[i].punchIn # EmptyStr /\ prev[i].punchOut # EmptyStr
            /\ prev[i].grossHours > 0
            /\ days[i].leaveType = "FULL"

\* C9: the result has the ids of the input in the same order, and a day with
\* neither a positive duration nor a leave tag is returned as it was.
C9_DaysWithoutEvidenceUnchanged ==
    op = "parse" =>
        /\ Len(days) = Len(prev)
        /\ \A i \in 1..Len(days) :
              /\ days[i].id = prev[i].id
              /\ (PositiveDurations(text, i, prev) = {} /\ ~TagRecorded(text, i, prev)) =>
                    days[i] = prev[i]

\* a day named by a date line and followed only by an arrival status, next
\* to a day that the parse changed
C9_Witness ==
    /\ op = "parse"
    /\ \E i, j \in 1..Len(days) :
            /\ StatusLines(text, i, prev) # {}
            /\ PositiveDurations(text, i, prev) = {}
            /\ ~TagRecorded(text, i, prev)
            /\ prev[i].grossHours > 0
            /\ days[j] # prev[j]

----------------------------------------------------------------------------
(* Properties of the day store *)

\* C10: in every state reachable from the initial week by edits, resets,
\* imports and auto-plans, a day with leaveType Full has empty punches and
\* grossHours 0.
C10_FullLeaveDayIsEmpty ==
    \A i \in 1..Len(days) :
        days[i].leaveType = "FULL" =>
            /\ days[i].punchIn = EmptyStr
            /\ days[i].punchOut = EmptyStr
            /\ days[i].grossHours = 0

\* Monday was given punches by an import and then set to Full leave by an edit
C10_Witness ==
    /\ nops = 2
    /\ op = "update"
    /\ text = <<MonLine, HoursLine, LateLine>>
    /\ days[1].leaveType = "FULL"

\* C11 (as claimed): in every state reachable from the initial week by edits,
\* resets, imports and auto-plans, a day whose punchIn and punchOut are both
\* non-empty has grossHours = calculateDuration(punchIn, punchOut).
C11_GrossHoursMatchPunches ==
    \A i \in 1..Len(days) :
        (days[i].punchIn # EmptyStr /\ days[i].punchOut # EmptyStr) =>
            days[i].grossHours = calculateDuration(days[i].punchIn, days[i].punchOut)

----------------------------------------------------------------------------
(* Properties of calculateOutTimeFromMinutes; `result' is its value for
   args.punchIn, args.target and `settings' *)

\* the least integer not below num/den
CeilOf(num, den) == CHOOSE k \in -2000..2000 : k * den >= num /\ (k - 1) * den < num

\* the buffered target: the target rounded up, plus 2 minutes when it is positive
BufferedTarget(t) == CeilOf(t.num, t.den) + (IF t.num > 0 THEN 2 ELSE 0)

\* buffered target minus the minutes available between punch-in and cap
DeficitOf(p, t, s) ==
    LET room == EffectiveCap(s) - ClockMinutes(p)
    IN BufferedTarget(t) - (IF room > 0 THEN room ELSE 0)

\* the number a message names (its decimal digits)
MsgCount(msg) ==
    ToNumber(SelectSeq(msg, LAMBDA c : \E i \in 1..10 : DigitChars[i] = c))

\* half-day credits a result reports: those its message names, 0 when ok
CreditsOf(r) == IF r.status = "suggestion" THEN MsgCount(r.msg) ELSE 0

LeqTarget(t1, t2) == t1.num * t2.den <= t2.num * t1.den

\* C12: the status is ok exactly when punchIn plus the buffered target is not
\* later than the effective cap, and then the time is punchIn plus the
\* buffered target, so the stay is not shorter than the target.
C12_OkIffWithinCap ==
    op = "suggest" =>
        LET p == ClockMinutes(args.punchIn)
            b == BufferedTarget(args.target)
        IN /\ (result.status = "ok") <=> (p + b <= EffectiveCap(settings))
           /\ result.status = "ok" =>
                /\ ClockMinutes(result.time) = p + b
                /\ (ClockMinutes(result.time) - p) * args.target.den >= args.target.num

\* an ok result for a fractional positive target
C12_Witness ==
    /\ op = "suggest"
    /\ result.status = "ok"
    /\ args.target.den > 1
    /\ ClockMinutes(result.time) > ClockMinutes(args.punchIn) + 2

\* C13 (as claimed): a time suggested with status ok or suggestion is not
\* later than the effective cap, for every punchIn, target >= 0 and settings.
C13_SuggestedTimeWithinCap ==
    op = "suggest" =>
        (result.status \in {"ok", "suggestion"} =>
            ClockMinutes(result.time) <= EffectiveCap(settings))

\* C14: when punchIn plus the buffered target exceeds the cap, the count is
\* ceil(deficit / 285); when it is >= 1 the status is suggestion, the message
\* names the count and the time is punchIn + max(0, buffered - 285 * count);
\* for punchIn not later than the cap the count is the least n >= 1 with
\* punchIn + buffered - 285 * n not later than the cap.
C14_HalfDayCredits ==
    op = "suggest" =>
        LET p == ClockMinutes(args.punchIn)
            b == BufferedTarget(args.target)
            cap == EffectiveCap(settings)
            n == CeilOf(DeficitOf(args.punchIn, args.target, settings), 285)
            rest == IF b - 285 * n > 0 THEN b - 285 * n ELSE 0
        IN (p + b > cap /\ n >= 1) =>
                /\ result.status = "suggestion"
                /\ MsgCount(result.msg) = n
                /\ ClockMinutes(result.time) = p + rest
                /\ p <= cap => /\ p + b - 285 * n <= cap
                               /\ \A k \in 1..(n - 1) : p + b - 285 * k > cap

\* the example of the claim: punchIn 18:00, target 570, cap 20:31
C14_Witness ==
    /\ op = "suggest"
    /\ args.punchIn = T1800
    /\ args.target = Target(570, 1)
    /\ settings = DefaultSettings
    /\ result.status = "suggestion"
    /\ MsgCount(result.msg) = 2
    /\ result.time = <<"1", "8", ":", "0", "2">>

\* C15: the status is impossible only when the deficit is <= 0, and then the
\* time is the effective cap; for punchIn not later than the cap (target >= 0)
\* the status is ok or suggestion.
C15_ImpossibleOnlyWithoutDeficit ==
    op = "suggest" =>
        /\ result.status = "impossible" =>
              /\ DeficitOf(args.punchIn, args.target, settings) <= 0
              /\ ClockMinutes(result.time) = EffectiveCap(settings)
        /\ ClockMinutes(args.punchIn) <= EffectiveCap(settings) =>
              result.status \in {"ok", "suggestion"}

\* an impossible result
C15_Witness ==
    /\ op = "suggest"
    /\ result.status = "impossible"
    /\ ClockMinutes(args.punchIn) > EffectiveCap(settings)

\* C16: for the same punchIn and settings, a target that is not smaller gets
\* a count of half-day credits (0 when ok) and a deficit that are not smaller.
C16_MonotonicInTarget ==
    op = "suggest" =>
        \A t2 \in SuggestTargets :
            LeqTarget(args.target, t2) =>
                /\ CreditsOf(calculateOutTimeFromMinutes(args.punchIn, t2, settings))
                      >= CreditsOf(result)
                /\ deficitMinutes(args.punchIn, t2, settings)
                      >= deficitMinutes(args.punchIn, args.target, settings)

\* a result with one credit, where a larger target of the set gets more
C16_Witness ==
    /\ op = "suggest"
    /\ CreditsOf(result) = 1
    /\ \E t2 \in SuggestTargets :
            /\ LeqTarget(args.target, t2)
            /\ CreditsOf(calculateOutTimeFromMinutes(args.punchIn, t2, settings)) > 1

----------------------------------------------------------------------------
(* Properties of getSmartSuggestions; `result' is its value for the day
   days[args.day], the collection `days' and `settings' *)

\* a concrete clock time "HH:MM"
IsClock(t) ==
    /\ Len(t) = 5
    /\ t[3] = ":"
    /\ \A k \in {1, 2, 4, 5} : \E i \in 1..10 : DigitChars[i] = t[k]
    /\ DigitVal(t[1]) * 10 + DigitVal(t[2]) <= 23
    /\ DigitVal(t[4]) * 10 + DigitVal(t[5]) <= 59

\* the result "none": status none with an empty time
IsNone(r) == r.status = "none" /\ r.time = EmptyStr

\* C17: both results are none with an empty time exactly when the day's
\* punchIn is empty, or its punchOut is set, or its leaveType is Full; in every
\* other case both results carry a concrete clock time.
C17_NoneExactlyWhenClosed ==
    op = "smart" =>
        LET d == days[args.day]
            closed == d.punchIn = EmptyStr \/ d.punchOut # EmptyStr \/ d.leaveType = "FULL"
        IN /\ closed <=> (IsNone(result.standard) /\ IsNone(result.adjusted))
           /\ closed => (result.standard.status = "none" /\ result.adjusted.status = "none")
           /\ ~closed => /\ result.standard.status # "none"
                         /\ result.adjusted.status # "none"
                         /\ IsClock(result.standard.time)
                         /\ IsClock(result.adjusted.time)

\* an open day whose adjusted suggestion differs from the standard one, in a
\* week that also holds a day with punch-in and punch-out
C17_Witness ==
    /\ op = "smart"
    /\ days[args.day].punchIn # EmptyStr
    /\ days[args.day].punchOut = EmptyStr
    /\ IsClock(result.standard.time)
    /\ IsClock(result.adjusted.time)
    /\ result.adjusted.time # result.standard.time
    /\ \E j \in 1..Len(days) : days[j].punchIn # EmptyStr /\ days[j].punchOut # EmptyStr

----------------------------------------------------------------------------
(* Properties of distributeDeficit (continued) and of calculateWeekStats *)

\* num/den to the nearest integer
Nearest(num, den) == (2 * num + den) \div (2 * den)

UnlockedDays(ds) == {i \in 1..Len(ds) : ~LockedDay(ds[i])}

\* 47.5 h less 4.75 h per Half day and 9.5 h per Full day, not below 0
RequiredOf(ds) ==
    LET deduction == SumSeq([i \in 1..Len(ds) |->
                        IF ds[i].leaveType = "FULL" THEN 95000
                        ELSE IF ds[i].leaveType = "HALF" THEN 47500 ELSE 0])
    IN IF deduction >= 475000 THEN 0 ELSE 475000 - deduction

\* required total less the hours of the locked days, not below 0
NeededOf(ds) ==
    LET lockedHours == SumSeq([i \in 1..Len(ds) |->
                          IF LockedDay(ds[i]) THEN ds[i].grossHours ELSE 0])
    IN IF RequiredOf(ds) >= lockedHours THEN RequiredOf(ds) - lockedHours ELSE 0

\* no unlocked day's start plus the equal share passes the cap
NoDayCapped(ds, s) ==
    LET n == Cardinality(UnlockedDays(ds))
    IN \A i \in UnlockedDays(ds) :
          ClockMinutes(PlanStart(ds[i], s)) * Scale * n + NeededOf(ds) * 60
              <= EffectiveCap(s) * Scale * n

\* the equal share in whole minutes
ShareMinutes(ds) == Nearest(NeededOf(ds) * 60, Scale * Cardinality(UnlockedDays(ds)))

\* C18 (as claimed): when no unlocked day is capped, every unlocked day gets
\* grossHours = neededTotal / number of unlocked days (to four decimals).
C18_EqualShare ==
    (op = "plan" /\ UnlockedDays(prev) # {} /\ NoDayCapped(prev, settings)) =>
        \A i \in UnlockedDays(prev) :
            days[i].grossHours = Nearest(NeededOf(prev), Cardinality(UnlockedDays(prev)))

\* C18 (amended): when no unlocked day is capped, all unlocked days get the
\* same grossHours, the equal share rounded to the nearest whole minute,
\* whatever their punchIn, leaveType or previous grossHours.
C18_EqualShareToTheMinute ==
    (op = "plan" /\ UnlockedDays(prev) # {} /\ NoDayCapped(prev, settings)) =>
        \A i, j \in UnlockedDays(prev) :
            /\ days[i].grossHours = days[j].grossHours
            /\ days[i].grossHours = Nearest(ShareMinutes(prev) * Scale, 60)

\* an uncapped plan over unlocked days that differ in punchIn, leaveType and
\* previous grossHours, next to a locked day with hours
C18_Witness ==
    /\ op = "plan"
    /\ NoDayCapped(prev, settings)
    /\ \E i, j, k \in UnlockedDays(prev) :
            /\ prev[i].punchIn # prev[j].punchIn
            /\ prev[i].leaveType = "HALF" /\ prev[j].leaveType = "NONE"
            /\ prev[k].grossHours > 0
            /\ days[k].grossHours # prev[k].grossHours
            /\ days[i].grossHours > 0
    /\ \E l \in 1..Len(prev) : LockedDay(prev[l]) /\ prev[l].grossHours > 0

\* 4.75 h per Half day and 9.5 h per Full day of the collection
DeductionOf(ds) ==
    47500 * Cardinality({i \in 1..Len(ds) : ds[i].leaveType = "HALF"})
      + 95000 * Cardinality({i \in 1..Len(ds) : ds[i].leaveType = "FULL"})

\* C19: calculateWeekStats returns requiredTotal = max(0, 47.5 - totalLeaveDeduction)
\* with 4.75 deducted per Half day and 9.5 per Full day; requiredTotal is never
\* negative, and requiredTotal + totalLeaveDeduction = 47.5 whenever the
\* deduction does not exceed 47.5.
C19_RequiredTotal ==
    op = "stats" =>
        /\ result.totalLeaveDeduction = DeductionOf(days)
        /\ result.requiredTotal =
              (IF 475000 - DeductionOf(days) > 0 THEN 475000 - DeductionOf(days) ELSE 0)
        /\ result.requiredTotal >= 0
        /\ DeductionOf(days) <= 475000 =>
              result.requiredTotal + result.totalLeaveDeduction = 475000

\* the statistics of a week holding a Half day and a Full day
C19_Witness ==
    /\ op = "stats"
    /\ \E i, j \in 1..Len(days) : days[i].leaveType = "HALF" /\ days[j].leaveType = "FULL"
    /\ result.totalLeaveDeduction > 0
    /\ result.requiredTotal < 475000

----------------------------------------------------------------------------
(* Properties of the time codec; `result' is minutesToTime(timeToMinutes(args.clock)) *)

\* the hour a zero-padded clock string names
HourOf(t) == DigitVal(t[1]) * 10 + DigitVal(t[2])

\* C20: for every zero-padded clock string s from "00:00" to "23:59",
\* minutesToTime(timeToMinutes(s)) = s; for 24:00 or later the result is "23:59".
C20_ClockRoundTrip ==
    op = "roundtrip" =>
        IF HourOf(args.clock) <= 23
        THEN result = args.clock
        ELSE result = <<"2", "3", ":", "5", "9">>

\* a round trip of a time whose hour and minute both need padding
C20_Witness ==
    /\ op = "roundtrip"
    /\ args.clock = <<"0", "9", ":", "0", "5">>
    /\ result = args.clock

----------------------------------------------------------------------------
(* Properties of distributeDeficit: capping, repetition, coverage *)

\* the start of unlocked day i plus the equal share passes the cap
CappedDay(ds, i, s) ==
    LET n == Cardinality(UnlockedDays(ds))
    IN ClockMinutes(PlanStart(ds[i], s)) * Scale * n + NeededOf(ds) * 60
          > EffectiveCap(s) * Scale * n

UncappedDays(ds, s) == {i \in UnlockedDays(ds) : ~CappedDay(ds, i, s)}

\* whole minutes between the punches of a day
PunchMinutes(d) ==
    IF d.punchIn = EmptyStr \/ d.punchOut = EmptyStr THEN 0
    ELSE IF ClockMinutes(d.punchOut) > ClockMinutes(d.punchIn)
         THEN ClockMinutes(d.punchOut) - ClockMinutes(d.punchIn)
         ELSE 0

\* capping has left some unlocked day below the equal share
CappedBelowShare(before, after, s) ==
    \E c \in UnlockedDays(before) :
        /\ CappedDay(before, c, s)
        /\ after[c].grossHours * Cardinality(UnlockedDays(before)) < NeededOf(before)

\* every uncapped unlocked day has the hours of the uncapped equal split
UncappedKeepShare(before, after, s) ==
    \A i \in UncappedDays(before, s) :
        after[i].grossHours = Nearest(ShareMinutes(before) * Scale, 60)

----------------------------------------------------------------------------
(* Properties of calculateWeekStats: projection *)

\* 9.5 h for None, 4.75 h for Half, 0 for Full
ExpectationOf(d) ==
    CASE d.leaveType = "NONE" -> 95000
      [] d.leaveType = "HALF" -> 47500
      [] d.leaveType = "FULL" -> 0

\* what a day adds to the projection
ProjectionOf(d) ==
    CASE d.punchOut # EmptyStr -> d.grossHours
      [] d.punchOut = EmptyStr /\ d.punchIn # EmptyStr ->
            (IF d.grossHours >= ExpectationOf(d) THEN d.grossHours ELSE ExpectationOf(d))
      [] d.punchOut = EmptyStr /\ d.punchIn = EmptyStr /\ d.status \in {"FUTURE", "PRESENT"} ->
            ExpectationOf(d)
      [] OTHER -> 0

\* C22: projectedTotal is the sum over the days of grossHours when punchOut is
\* set, else max(grossHours, dailyExpectation) when punchIn is set, else
\* dailyExpectation when the status is Future or Present, else 0; isOnTrack is
\* true exactly when projectedTotal >= requiredTotal - 0.1.
C22_Projection ==
    op = "stats" =>
        /\ result.projectedTotal = SumSeq([i \in 1..Len(days) |-> ProjectionOf(days[i])])
        /\ result.isOnTrack <=> (result.projectedTotal >= result.requiredTotal - 1000)

\* the statistics of a week with a closed day, an open day whose hours exceed
\* its expectation, an empty day to come and an empty past day
C22_Witness ==
    /\ op = "stats"
    /\ \E a, b, c, e \in 1..Len(days) :
            /\ days[a].punchOut # EmptyStr /\ days[a].grossHours > 0
            /\ days[b].punchOut = EmptyStr /\ days[b].punchIn # EmptyStr
                 /\ days[b].grossHours > ExpectationOf(days[b])
            /\ days[c].punchIn = EmptyStr /\ days[c].punchOut = EmptyStr
                 /\ days[c].status = "FUTURE" /\ days[c].leaveType = "NONE"
            /\ days[e].punchIn = EmptyStr /\ days[e].punchOut = EmptyStr
                 /\ days[e].status = "PAST" /\ days[e].leaveType = "NONE"
    /\ result.projectedTotal > 0
    /\ ~result.isOnTrack

----------------------------------------------------------------------------
(* Properties of getSmartSuggestions: the adjusted target *)

\* the day is open: punch-in set, no punch-out, not on Full leave
OpenDay(d) == d.punchIn # EmptyStr /\ d.punchOut = EmptyStr /\ d.leaveType # "FULL"

\* days that are not Full leave, have no punch-out and are day i or a Future day
AvailableDays(ds, i) ==
    {j \in 1..Len(ds) :
        /\ ds[j].leaveType # "FULL"
        /\ ds[j].punchOut = EmptyStr
        /\ (j = i \/ ds[j].status = "FUTURE")}

\* required total less the hours of all days but day i, not below 0
RemainingFor(ds, i) ==
    LET others == SumSeq([j \in 1..Len(ds) |-> IF j # i THEN ds[j].grossHours ELSE 0])
    IN IF RequiredOf(ds) > others THEN RequiredOf(ds) - others ELSE 0

\* C23: the adjusted suggestion is the one for the target
\* max(0, requiredTotal - hours of all other days) / max(1, availableDaysCount);
\* the day itself is always counted, so the divisor is never 0.
C23_AdjustedTarget ==
    (op = "smart" /\ OpenDay(days[args.day])) =>
        LET i == args.day
            count == Cardinality(AvailableDays(days, i))
        IN /\ i \in AvailableDays(days, i)
           /\ count >= 1
           /\ result.adjusted =
                calculateOutTimeFromMinutes(days[i].punchIn,
                    Target(RemainingFor(days, i) * 60, Scale * count), settings)

\* an open day with hours of its own, one more available day, and other days
\* with hours
C23_Witness ==
    /\ op = "smart"
    /\ OpenDay(days[args.day])
    /\ days[args.day].grossHours > 0
    /\ Cardinality(AvailableDays(days, args.day)) = 2
    /\ \E j \in 1..Len(days) : j # args.day /\ days[j].grossHours > 0
    /\ result.adjusted.status = "ok"
    /\ result.adjusted.time # result.standard.time

----------------------------------------------------------------------------
(* Properties of the import paths *)

\* the collection the parse of the arriving text is computed from
ImportBasis == IF paste # << >> THEN paste[1] ELSE days

\* C24: an import whose parse result differs from the current collection in no
\* day's punchIn, punchOut, grossHours or leaveType sets an error, shows no
\* success toast and leaves the collection alone, on the dialog's paths and on
\* the URL auto-import.
C24_ZeroDiffIsError ==
    [][ ( /\ op' \in {"import", "autoimport", "paste"}
          /\ ~hasChanges(parseKekaText(text', IF op' = "paste" THEN ImportBasis ELSE days,
                                       settings), days) )
        => ( /\ error' # ""
             /\ toast' = toast
             /\ days' = days ) ]_vars

\* C25: no update is lost: the collection installed when the clipboard text
\* arrives is the parse of that text over the collection current at that
\* moment, so an edit or reset made since the click is still in it.
C25_NoLostUpdate ==
    [][ (op' = "paste" /\ days' # days)
        => days' = parseKekaText(text', days, settings) ]_vars

----------------------------------------------------------------------------
(* Properties of distributeDeficit: repetition and coverage *)

\* C26: distributeDeficit is idempotent: planning the planned week again
\* changes nothing, also with a Present day without punch-out and with capped
\* days.
C26_Idempotent ==
    op = "plan" => distributeDeficit(days, settings) = days

\* C27: after distributeDeficit with at least one unlocked day and no unlocked
\* day capped, the requirement is covered: remainingWeekly of the result,
\* counted in whole minutes, is 0.
C27_RequirementCovered ==
    (op = "plan" /\ UnlockedDays(prev) # {} /\ NoDayCapped(prev, settings)) =>
        Nearest(calculateWeekStats(days).remainingWeekly * 60, Scale) = 0

----------------------------------------------------------------------------
(* Properties of the dashboard: recorded hours and the on-track flag *)

\* C28: in every collection reached by imports, edits, resets and auto-plans,
\* totalWorked >= requiredTotal implies isOnTrack, also when a Past day has
\* hours set by the parser without punch times.
C28_CoveredIsOnTrack ==
    LET stats == calculateWeekStats(days)
    IN stats.totalWorked >= stats.requiredTotal => stats.isOnTrack

\* C29: an edit of a day's leaveType to None or Half changes only leaveType:
\* punchIn, punchOut and grossHours of the day are as before, also when the
\* hours were imported and the punch-out is empty.
C29_LeaveEditKeepsHours ==
    [][ \A i \in 1..Len(days), value \in {"NONE", "HALF"} :
          ( /\ op' = "update"
            /\ days' = handleUpdateDay(days, days[i].id, "leaveType", value) )
          => ( /\ days'[i].punchIn = days[i].punchIn
               /\ days'[i].punchOut = days[i].punchOut
               /\ days'[i].grossHours = days[i].grossHours ) ]_vars

----------------------------------------------------------------------------
(* Properties of the suggestion pills *)

\* C30: when the adjusted suggestion of an open day has status ok and the day
\* is the only available day, the week after the suggestion is applied as the
\* day's punch-out has remainingWeekly = 0.
C30_AdjustedCoversWeek ==
    ( /\ op = "apply"
      /\ args.pill = "adjusted"
      /\ OpenDay(prev[args.day])
      /\ result.adjusted.status = "ok"
      /\ Cardinality(AvailableDays(prev, args.day)) = 1 )
    => calculateWeekStats(days).remainingWeekly = 0

\* the only available day, with a past day still open beside it, hours left to
\* work and the suggestion applied
C30_Witness ==
    /\ op = "apply"
    /\ args.pill = "adjusted"
    /\ OpenDay(prev[args.day])
    /\ result.adjusted.status = "ok"
    /\ Cardinality(AvailableDays(prev, args.day)) = 1
    /\ \E j \in 1..Len(prev) :
          j # args.day /\ prev[j].punchOut = EmptyStr /\ prev[j].leaveType # "FULL"
    /\ calculateWeekStats(prev).remainingWeekly > 0
    /\ RemainingFor(prev, args.day) > 0
    /\ days[args.day].punchOut = result.adjusted.time
    /\ days[args.day].grossHours > 0

====
